---------------------------- MODULE Spec2Model ----------------------------
(***************************************************************************)
(* A model of deflacue (src/deflacue.py): the Cue Sheet parser CueParser,  *)
(* its time-code arithmetic, and the batch orchestrator Deflacue.do().     *)
(*                                                                         *)
(* Text is modelled at character level: a Python str is a sequence of      *)
(* one-character strings, so that split, strip, int(), upper() and lower() *)
(* are computed as the code computes them.  A Python value stored in a     *)
(* context dictionary is a tagged record (None, a str or an int), so that  *)
(* the int 1 and the str '1' are different values, as they are in Python.  *)
(* A dictionary is a function whose domain is its current set of keys.     *)
(***************************************************************************)
EXTENDS Integers, Sequences, FiniteSets, TLC

VARIABLES
    \* ---- CueParser.__init__ (one sheet, line by line)
    context_global,     \* self._context_global
    context_tracks,     \* self._context_tracks
    current_context,    \* self._current_context: 0 is the global dictionary
                        \* object, k > 0 the k-th dictionary of context_tracks
    raised,             \* the exception that left __init__, or "" for none
    ppc,                \* where __init__ is: "lines", "post", "done", "raised"
    line,               \* the line the loop of __init__ handled last
    nlines,             \* how many lines the loop has taken from the file
    track_cmds,         \* the TRACK lines the loop has handled, in order
    \* ---- the time-code functions on their own
    time_fields,        \* the fields the time code is written with
    timestr,            \* the time code: the fields joined by colons
    samples,            \* what the call returned (or that it raised)
    \* ---- Deflacue.do() (one batch)
    tree,               \* the file system under the source path: each
                        \* directory's path and the names of its files
    dry_run,            \* self._dry_run
    recursive,          \* the argument of do()
    target,             \* self.target: <<>> for None, else the destination
    dpc,                \* where do() is: "start", "dir", "cue", "done",
                        \* "raised" ("idle" when no batch is modelled)
    paths,              \* the directories do() still has to work on, in order
    cues,               \* the cue files of the current directory still to do
    target_path,        \* target_path of the current directory
    cwd,                \* the process's working directory
    made,               \* the paths os.makedirs has been called with
    sox,                \* the commands run for sox_extract_audio, in order
    parsed,             \* the cue files handed to CueParser, in order, each
                        \* with the content open() found in it
    do_raised,          \* the exception that left do(), or "" for none
    probe,              \* what sox_check_is_available() found in main():
                        \* "none" before it is called, then "ok" or "failed"
    errors              \* the messages logged with logging.error, in order

parser_vars == <<context_global, context_tracks, current_context, raised, ppc,
                 line, nlines, track_cmds>>
time_vars == <<time_fields, timestr, samples>>
do_vars == <<tree, dry_run, recursive, target, dpc, paths, cues, target_path,
             cwd, made, sox, parsed, do_raised, probe, errors>>
vars == <<parser_vars, time_vars, do_vars>>

-----------------------------------------------------------------------------
(* Python str operations, on sequences of characters.                       *)

WHITESPACE == {" ", "\t", "\n"}

DIGITS == {"0", "1", "2", "3", "4", "5", "6", "7", "8", "9"}

DigitVal(c) ==
    CASE c = "0" -> 0 [] c = "1" -> 1 [] c = "2" -> 2 [] c = "3" -> 3
      [] c = "4" -> 4 [] c = "5" -> 5 [] c = "6" -> 6 [] c = "7" -> 7
      [] c = "8" -> 8 [] c = "9" -> 9

\* str.lower() of one character (the letters the model's texts use).
LowerChar(c) ==
    CASE c = "A" -> "a" [] c = "C" -> "c" [] c = "D" -> "d" [] c = "E" -> "e"
      [] c = "F" -> "f" [] c = "G" -> "g" [] c = "I" -> "i" [] c = "K" -> "k"
      [] c = "L" -> "l" [] c = "M" -> "m" [] c = "N" -> "n" [] c = "O" -> "o"
      [] c = "P" -> "p" [] c = "R" -> "r" [] c = "S" -> "s" [] c = "T" -> "t"
      [] c = "U" -> "u" [] c = "V" -> "v" [] c = "W" -> "w" [] c = "X" -> "x"
      [] OTHER -> c

\* str.upper() of one character.
UpperChar(c) ==
    CASE c = "a" -> "A" [] c = "c" -> "C" [] c = "d" -> "D" [] c = "e" -> "E"
      [] c = "f" -> "F" [] c = "g" -> "G" [] c = "i" -> "I" [] c = "k" -> "K"
      [] c = "l" -> "L" [] c = "m" -> "M" [] c = "n" -> "N" [] c = "o" -> "O"
      [] c = "p" -> "P" [] c = "r" -> "R" [] c = "s" -> "S" [] c = "t" -> "T"
      [] c = "u" -> "U" [] c = "v" -> "V" [] c = "w" -> "W" [] c = "x" -> "X"
      [] OTHER -> c

Lower(s) == [i \in 1..Len(s) |-> LowerChar(s[i])]

Upper(s) == [i \in 1..Len(s) |-> UpperChar(s[i])]

Reverse(s) == [i \in 1..Len(s) |-> s[Len(s) + 1 - i]]

\* The least i >= from with s[i] not in chars, or Len(s) + 1.
RECURSIVE FirstKept(_, _, _)
FirstKept(s, chars, from) ==
    IF from > Len(s) \/ s[from] \notin chars THEN from
    ELSE FirstKept(s, chars, from + 1)

\* The greatest i <= to with s[i] not in chars, or 0.
RECURSIVE LastKept(_, _, _)
LastKept(s, chars, to) ==
    IF to < 1 \/ s[to] \notin chars THEN to ELSE LastKept(s, chars, to - 1)

\* s.strip(chars): the characters of chars are removed from both ends.
Strip(s, chars) ==
    SubSeq(s, FirstKept(s, chars, 1), LastKept(s, chars, Len(s)))

StartsWith(s, c) == s # <<>> /\ Head(s) = c

RECURSIVE FirstFrom(_, _, _)
FirstFrom(s, c, i) ==
    IF i > Len(s) THEN 0 ELSE IF s[i] = c THEN i ELSE FirstFrom(s, c, i + 1)

\* The least i with s[i] = c, or 0.
IndexOf(s, c) == FirstFrom(s, c, 1)

RECURSIVE LastFrom(_, _, _)
LastFrom(s, c, i) ==
    IF i < 1 THEN 0 ELSE IF s[i] = c THEN i ELSE LastFrom(s, c, i - 1)

\* The greatest i with s[i] = c, or 0.
LastIndexOf(s, c) == LastFrom(s, c, Len(s))

\* s.split(c, 1): one part when c is not in s, else the text before the
\* first c and the text after it.
SplitOnce(s, c) ==
    LET i == IndexOf(s, c)
    IN  IF i = 0 THEN <<s>>
        ELSE <<SubSeq(s, 1, i - 1), SubSeq(s, i + 1, Len(s))>>

\* s.rsplit(c, 1): as SplitOnce, at the last c.
RSplitOnce(s, c) ==
    LET i == LastIndexOf(s, c)
    IN  IF i = 0 THEN <<s>>
        ELSE <<SubSeq(s, 1, i - 1), SubSeq(s, i + 1, Len(s))>>

\* The parts of s from position from on, i being the position looked at.
RECURSIVE SplitAt(_, _, _, _)
SplitAt(s, c, from, i) ==
    IF i > Len(s) THEN <<SubSeq(s, from, Len(s))>>
    ELSE IF s[i] = c
         THEN <<SubSeq(s, from, i - 1)>> \o SplitAt(s, c, i + 1, i + 1)
    ELSE SplitAt(s, c, from, i + 1)

\* s.split(c): every part between two c, empty parts kept; [''] for ''.
Split(s, c) == SplitAt(s, c, 1, 1)

\* s.split(): the runs of non-whitespace characters.
SplitWS(s) == SelectSeq(Split([i \in 1..Len(s) |->
                                 IF s[i] \in WHITESPACE THEN " " ELSE s[i]],
                              " "),
                        LAMBDA part : part # <<>>)

RECURSIVE DecimalValue(_)
DecimalValue(ds) ==
    IF ds = <<>> THEN 0
    ELSE 10 * DecimalValue(SubSeq(ds, 1, Len(ds) - 1)) + DigitVal(ds[Len(ds)])

\* int(s): surrounding whitespace is dropped, one sign is allowed, and at
\* least one digit must follow; anything else raises ValueError.
ParseInt(s) ==
    LET t == Strip(s, WHITESPACE)
        signed == t # <<>> /\ Head(t) \in {"-", "+"}
        ds == IF signed THEN Tail(t) ELSE t
    IN  IF ds # <<>> /\ \A i \in 1..Len(ds) : ds[i] \in DIGITS
        THEN [ok |-> TRUE,
              v |-> IF signed /\ Head(t) = "-" THEN 0 - DecimalValue(ds)
                    ELSE DecimalValue(ds)]
        ELSE [ok |-> FALSE, v |-> 0]

\* str(n) of an integer.
RECURSIVE NatStr(_)
NatStr(n) ==
    LET d == <<"0", "1", "2", "3", "4", "5", "6", "7", "8", "9">>
    IN  IF n < 10 THEN <<d[n + 1]>> ELSE NatStr(n \div 10) \o <<d[(n % 10) + 1]>>

IntStr(n) == IF n < 0 THEN <<"-">> \o NatStr(0 - n) ELSE NatStr(n)

-----------------------------------------------------------------------------
(* CueParser: the time-code functions.                                      *)

RECURSIVE Pow(_, _)
Pow(b, e) == IF e = 0 THEN 1 ELSE b * Pow(b, e - 1)

RECURSIVE SumSeq(_)
SumSeq(ns) == IF ns = <<>> THEN 0 ELSE Head(ns) + SumSeq(Tail(ns))

\* _timestr_to_sec: every field but the last, the last of them counted as
\* seconds, the one before it times 60, the one before that times 3600, ...
\* ok is FALSE when int() raises ValueError on a field.
TimestrToSecSwapped(ts) ==
    LET splitted == SubSeq(Split(ts, ":"), 1, Len(Split(ts, ":")) - 1)
        ints == [i \in 1..Len(splitted) |-> ParseInt(splitted[i])]
    IN  IF \E i \in 1..Len(ints) : ~ints[i].ok THEN [ok |-> FALSE, v |-> 0]
        ELSE [ok |-> TRUE,
              v |-> SumSeq([i \in 1..Len(ints) |->
                              ints[i].v * (IF i = 1 THEN 1 ELSE Pow(60, i - 1))])]

TimestrToSec(ts) ==
    LET fields == Split(ts, ":")
        splitted == Reverse(SubSeq(fields, 1, Len(fields) - 1))
        ints == [i \in 1..Len(splitted) |-> ParseInt(splitted[i])]
    IN  IF \E i \in 1..Len(ints) : ~ints[i].ok THEN [ok |-> FALSE, v |-> 0]
        ELSE [ok |-> TRUE,
              v |-> SumSeq([i \in 1..Len(ints) |->
                              ints[i].v * (IF i = 1 THEN 1 ELSE Pow(60, i - 1))])]

seconds_factor == 44100

frames_per_second == 75

frames_factor == seconds_factor \div frames_per_second

\* A conversion that takes nothing but three fields.
TimestrToSamplesThreeFields(ts) ==
    LET full_seconds == TimestrToSec(ts)
        fields == Split(ts, ":")
        frames == ParseInt(fields[Len(fields)])
    IN  IF Len(fields) # 3 \/ ~full_seconds.ok \/ ~frames.ok
        THEN [ok |-> FALSE, v |-> 0]
        ELSE [ok |-> TRUE,
              v |-> full_seconds.v * seconds_factor + frames.v * frames_factor]

\* A conversion that drops the frames.
TimestrToSamplesWithoutFrames(ts) ==
    LET full_seconds == TimestrToSec(ts)
        fields == Split(ts, ":")
        frames == ParseInt(fields[Len(fields)])
    IN  IF ~full_seconds.ok \/ ~frames.ok THEN [ok |-> FALSE, v |-> 0]
        ELSE [ok |-> TRUE, v |-> full_seconds.v * seconds_factor]

\* _timestr_to_samples: ok is FALSE when either int() raises ValueError.
TimestrToSamples(ts) ==
    LET full_seconds == TimestrToSec(ts)
        fields == Split(ts, ":")
        frames == ParseInt(fields[Len(fields)])
    IN  IF ~full_seconds.ok \/ ~frames.ok THEN [ok |-> FALSE, v |-> 0]
        ELSE [ok |-> TRUE,
              v |-> full_seconds.v * seconds_factor + frames.v * frames_factor]

-----------------------------------------------------------------------------
(* Python values and the context dictionaries.                              *)

None == [t |-> "none", s |-> <<>>, n |-> 0]

Str(chars) == [t |-> "str", s |-> chars, n |-> 0]

Num(i) == [t |-> "int", s |-> <<>>, n |-> i]

kPERFORMER == <<"P", "E", "R", "F", "O", "R", "M", "E", "R">>
kSONGWRITER == <<"S", "O", "N", "G", "W", "R", "I", "T", "E", "R">>
kALBUM == <<"A", "L", "B", "U", "M">>
kGENRE == <<"G", "E", "N", "R", "E">>
kDATE == <<"D", "A", "T", "E">>
kFILE == <<"F", "I", "L", "E">>
kCOMMENT == <<"C", "O", "M", "M", "E", "N", "T">>
kTITLE == <<"T", "I", "T", "L", "E">>
kINDEX == <<"I", "N", "D", "E", "X">>
kTRACK_NUM == <<"T", "R", "A", "C", "K", "_", "N", "U", "M">>
kPOS_START_SAMPLES == <<"P", "O", "S", "_", "S", "T", "A", "R", "T", "_",
                        "S", "A", "M", "P", "L", "E", "S">>
kPOS_END_SAMPLES == <<"P", "O", "S", "_", "E", "N", "D", "_",
                      "S", "A", "M", "P", "L", "E", "S">>

Unknown == Str(<<"U", "n", "k", "n", "o", "w", "n">>)

\* d[key] = val on a dictionary.
DictSet(d, key, val) ==
    [k \in DOMAIN d \cup {key} |-> IF k = key THEN val ELSE d[k]]

\* The dictionary __init__ starts self._context_global with.
InitialGlobal ==
    [k \in {kPERFORMER, kSONGWRITER, kALBUM, kGENRE, kDATE, kFILE, kCOMMENT} |->
        IF k \in {kPERFORMER, kALBUM, kGENRE} THEN Unknown ELSE None]

-----------------------------------------------------------------------------
(* CueParser: the command handlers, as functions of the parser's state      *)
(* P = [g: _context_global, tracks: _context_tracks, cur: _current_context, *)
(* raised: the exception raised, "" for none].                              *)

NewParser == [g |-> InitialGlobal, tracks |-> <<>>, cur |-> 0, raised |-> ""]

\* The dictionary self._current_context refers to.
Current(P) == IF P.cur = 0 THEN P.g ELSE P.tracks[P.cur]

\* An assignment that reaches the album's dictionary too, as it would if
\* the track's dictionary were not a copy.
SetCurrentAndAlbum(P, key, val) ==
    IF P.cur = 0 THEN [P EXCEPT !.g = DictSet(@, key, val)]
    ELSE [P EXCEPT !.g = DictSet(@, key, val),
                   !.tracks[P.cur] = DictSet(@, key, val)]

\* self._current_context[key] = val
SetCurrent(P, key, val) ==
    IF P.cur = 0 THEN [P EXCEPT !.g = DictSet(@, key, val)]
    ELSE [P EXCEPT !.tracks[P.cur] = DictSet(@, key, val)]

Raise(P, exc) == [P EXCEPT !.raised = exc]

\* _unquote: in_str.strip(' "')
Unquote(in_str) == Strip(in_str, {" ", "\""})

\* _in_global_context: == on two dictionaries compares their contents.
InGlobalContext(P) == Current(P) = P.g

CmdRem(P, args) ==
    LET parts == SplitOnce(args, " ")
    IN  IF Len(parts) < 2 THEN Raise(P, "ValueError")
        ELSE LET subcommand == parts[1]
                 subargs == IF StartsWith(parts[2], "\"")
                            THEN Unquote(parts[2]) ELSE parts[2]
             IN  SetCurrent(P, Upper(subcommand), Str(subargs))

CmdPerformer(P, args) == SetCurrent(P, kPERFORMER, Str(Unquote(args)))

CmdTitle(P, args) ==
    IF InGlobalContext(P) THEN SetCurrent(P, kALBUM, Str(Unquote(args)))
    ELSE SetCurrent(P, kTITLE, Str(Unquote(args)))

\* A cmd_file that sets FILE on the album context, whatever is active.
CmdFileOnAlbum(P, args) ==
    [P EXCEPT !.g = DictSet(@, kFILE, Str(Unquote(RSplitOnce(args, " ")[1])))]

CmdFile(P, args) ==
    SetCurrent(P, kFILE, Str(Unquote(RSplitOnce(args, " ")[1])))

\* A cmd_index that keeps the position a context already has.
CmdIndexKeepFirst(P, args) ==
    LET toks == SplitWS(args)
    IN  IF Len(toks) < 2 THEN Raise(P, "IndexError")
        ELSE LET ts == toks[2]
                 withIndex == SetCurrent(P, kINDEX, Str(ts))
                 smp == TimestrToSamples(ts)
             IN  IF ~smp.ok THEN Raise(withIndex, "ValueError")
                 ELSE IF kPOS_START_SAMPLES \in DOMAIN Current(P)
                 THEN withIndex
                 ELSE SetCurrent(withIndex, kPOS_START_SAMPLES, Num(smp.v))

\* cmd_index: INDEX is stored before the time code is converted.
CmdIndex(P, args) ==
    LET toks == SplitWS(args)
    IN  IF Len(toks) < 2 THEN Raise(P, "IndexError")
        ELSE LET ts == toks[2]
                 withIndex == SetCurrent(P, kINDEX, Str(ts))
                 smp == TimestrToSamples(ts)
             IN  IF ~smp.ok THEN Raise(withIndex, "ValueError")
                 ELSE SetCurrent(withIndex, kPOS_START_SAMPLES, Num(smp.v))

\* A cmd_track that copies the previous track's dictionary when there is one.
CmdTrackCopyPrevious(P, args) ==
    LET toks == SplitWS(args)
    IN  IF Len(toks) # 2 THEN Raise(P, "ValueError")
        ELSE LET new_track_context == Current(P)
                 appended == [P EXCEPT !.tracks = Append(@, new_track_context),
                                       !.cur = Len(P.tracks) + 1]
                 num == ParseInt(toks[1])
             IN  IF ~num.ok THEN Raise(appended, "ValueError")
                 ELSE SetCurrent(appended, kTRACK_NUM, Num(num.v))

\* cmd_track: the copy is appended and made current before int(num) runs.
CmdTrack(P, args) ==
    LET toks == SplitWS(args)
    IN  IF Len(toks) # 2 THEN Raise(P, "ValueError")
        ELSE LET new_track_context == P.g
                 appended == [P EXCEPT !.tracks = Append(@, new_track_context),
                                       !.cur = Len(P.tracks) + 1]
                 num == ParseInt(toks[1])
             IN  IF ~num.ok THEN Raise(appended, "ValueError")
                 ELSE SetCurrent(appended, kTRACK_NUM, Num(num.v))

CmdFlags(P, args) == P

\* The names cmd_<name> that getattr finds on a CueParser.
cREM == <<"r", "e", "m">>
cPERFORMER == Lower(kPERFORMER)
cTITLE == Lower(kTITLE)
cFILE == Lower(kFILE)
cINDEX == Lower(kINDEX)
cTRACK == <<"t", "r", "a", "c", "k">>
cFLAGS == <<"f", "l", "a", "g", "s">>

\* The command keyword of a line, lower-cased, or <<>> for a blank line.
CommandOf(ln) ==
    IF Strip(ln, WHITESPACE) = <<>> THEN <<>>
    ELSE Lower(SplitOnce(Strip(ln, WHITESPACE), " ")[1])

\* A loop over the lines whose getattr has no default: a command without
\* method raises AttributeError.
ParseLineUnknownRaises(P, ln) ==
    LET stripped == Strip(ln, WHITESPACE)
        parts == SplitOnce(stripped, " ")
    IN  IF stripped = <<>> THEN P
        ELSE IF Len(parts) < 2 THEN Raise(P, "ValueError")
        ELSE LET method == Lower(parts[1])
                 args == parts[2]
             IN  CASE method = cREM -> CmdRem(P, args)
                   [] method = cPERFORMER -> CmdPerformer(P, args)
                   [] method = cTITLE -> CmdTitle(P, args)
                   [] method = cFILE -> CmdFile(P, args)
                   [] method = cINDEX -> CmdIndex(P, args)
                   [] method = cTRACK -> CmdTrack(P, args)
                   [] method = cFLAGS -> CmdFlags(P, args)
                   [] OTHER -> Raise(P, "AttributeError")

\* One turn of the loop over the lines in __init__.
ParseLine(P, ln) ==
    LET stripped == Strip(ln, WHITESPACE)
        parts == SplitOnce(stripped, " ")
    IN  IF stripped = <<>> THEN P
        ELSE IF Len(parts) < 2 THEN Raise(P, "ValueError")
        ELSE LET method == Lower(parts[1])
                 args == parts[2]
             IN  CASE method = cREM -> CmdRem(P, args)
                   [] method = cPERFORMER -> CmdPerformer(P, args)
                   [] method = cTITLE -> CmdTitle(P, args)
                   [] method = cFILE -> CmdFile(P, args)
                   [] method = cINDEX -> CmdIndex(P, args)
                   [] method = cTRACK -> CmdTrack(P, args)
                   [] method = cFLAGS -> CmdFlags(P, args)
                   [] OTHER -> P

\* The loop after the lines: POS_END_SAMPLES of every track.  Reading
\* POS_START_SAMPLES of a next track that has none raises KeyError, which
\* the except IndexError clause does not catch; the tracks before it have
\* their POS_END_SAMPLES by then.
RECURSIVE PostPassFrom(_, _)
PostPassFrom(P, idx) ==
    IF idx > Len(P.tracks) THEN P
    ELSE IF idx = Len(P.tracks)
         THEN [P EXCEPT !.tracks[idx] = DictSet(@, kPOS_END_SAMPLES, None)]
    ELSE IF kPOS_START_SAMPLES \notin DOMAIN P.tracks[idx + 1]
         THEN Raise(P, "KeyError")
    ELSE PostPassFrom(
             [P EXCEPT !.tracks[idx] =
                  DictSet(@, kPOS_END_SAMPLES,
                          P.tracks[idx + 1][kPOS_START_SAMPLES])],
             idx + 1)

\* A loop over the tracks that starts at the second one.
PostPassFromSecond(P) == PostPassFrom(P, 2)

PostPass(P) == PostPassFrom(P, 1)

\* The lines of a file, one after another, until one raises.
RECURSIVE ParseLines(_, _)
ParseLines(P, lns) ==
    IF lns = <<>> \/ P.raised # "" THEN P
    ELSE ParseLines(ParseLine(P, Head(lns)), Tail(lns))

\* CueParser(cue_file): a file is [decodable, lines].  The result is the
\* parser's state; raised # "" means the constructor raised and there is
\* no parser object.
CueParser(file) ==
    IF ~file.decodable THEN Raise(NewParser, "DeflacueError")
    ELSE LET P == ParseLines(NewParser, file.lines)
         IN  IF P.raised # "" THEN P ELSE PostPass(P)

-----------------------------------------------------------------------------
(* The texts the model feeds the parser.                                    *)

SP == <<" ">>
QUOTE == <<"\"">>
tAUDIO == <<"A", "U", "D", "I", "O">>
tWAVE == <<"W", "A", "V", "E">>
tREM == Upper(cREM)
tTRACK == Upper(cTRACK)
tFLAGS == Upper(cFLAGS)
tPREGAP == <<"P", "R", "E", "G", "A", "P">>
nDFLAC == <<"d", ".", "f", "l", "a", "c">>
nXFLAC == <<"x", ".", "f", "l", "a", "c">>

Quoted(chars) == QUOTE \o chars \o QUOTE

t000000 == <<"0", "0", ":", "0", "0", ":", "0", "0">>
t000100 == <<"0", "0", ":", "0", "1", ":", "0", "0">>
t000075 == <<"0", "0", ":", "0", "0", ":", "7", "5">>
t033000 == <<"0", "3", ":", "3", "0", ":", "0", "0">>

lREM_TRACK_NUM == tREM \o SP \o kTRACK_NUM \o SP \o <<"1">>
lREM_DATE == tREM \o SP \o <<"d", "a", "t", "e">> \o SP \o <<"1", "9", "9", "9">>
lPERFORMER == kPERFORMER \o SP \o Quoted(<<"P">>)
lTITLE_A == kTITLE \o SP \o Quoted(<<"A", "l">>)
lTITLE_S1 == cTITLE \o SP \o Quoted(<<"S", "/", "1">>)
lTITLE_S2 == kTITLE \o SP \o Quoted(<<"S", "2">>)
lFILE == kFILE \o SP \o Quoted(nDFLAC) \o SP \o tWAVE
lFILE_X == kFILE \o SP \o Quoted(nXFLAC) \o SP \o tWAVE
lTRACK_01 == tTRACK \o SP \o <<"0", "1">> \o SP \o tAUDIO
lTRACK_02 == tTRACK \o SP \o <<"0", "2">> \o SP \o tAUDIO
lINDEX_00 == kINDEX \o SP \o <<"0", "0">> \o SP \o t000075
lINDEX_01 == kINDEX \o SP \o <<"0", "1">> \o SP \o t000000
lINDEX_01_0330 == kINDEX \o SP \o <<"0", "1">> \o SP \o t033000
lINDEX_ONE_FIELD == kINDEX \o SP \o <<"0", "1">> \o SP \o <<"5">>
lINDEX_NOT_INT == kINDEX \o SP \o <<"0", "1">> \o SP
                    \o <<"0", "x", ":", "0", "0", ":", "0", "0">>
lFLAGS == tFLAGS \o SP \o <<"D", "C", "P">>
lPREGAP == tPREGAP \o SP \o <<"0", "0", ":", "0", "2", ":", "0", "0">>
lNO_ARGS == kTITLE \o SP
lBLANK == <<" ", "\n">>

\* The lines a sheet of the parser's specification is made of.
Lines == {lREM_TRACK_NUM, lPERFORMER, lTITLE_S1, lFILE, lTRACK_01, lTRACK_02,
          lINDEX_00, lINDEX_01_0330, lINDEX_ONE_FIELD, lINDEX_NOT_INT, lFLAGS,
          lPREGAP, lNO_ARGS, lBLANK}

\* The longest sheet of the parser's specification, in lines.
MaxLines == 5

-----------------------------------------------------------------------------
(* SpecParser: CueParser.__init__ on one sheet, any lines in any order.     *)

ParserState == [g |-> context_global, tracks |-> context_tracks,
                cur |-> current_context, raised |-> raised]

ParserIdle ==
    /\ context_global = InitialGlobal
    /\ context_tracks = <<>>
    /\ current_context = 0
    /\ raised = ""
    /\ ppc = "open"
    /\ line = <<>>
    /\ nlines = 0
    /\ track_cmds = <<>>

NotConverted == [done |-> FALSE, ok |-> FALSE, v |-> 0]

TimeIdle == time_fields = <<>> /\ timestr = <<>> /\ samples = NotConverted

DoIdle ==
    /\ tree = <<>>
    /\ dry_run = FALSE
    /\ recursive = FALSE
    /\ target = <<>>
    /\ dpc = "idle"
    /\ paths = <<>>
    /\ cues = <<>>
    /\ target_path = <<>>
    /\ cwd = <<>>
    /\ made = {}
    /\ sox = <<>>
    /\ parsed = <<>>
    /\ do_raised = ""
    /\ probe = "none"
    /\ errors = <<>>

SetParser(P) ==
    /\ context_global' = P.g
    /\ context_tracks' = P.tracks
    /\ current_context' = P.cur
    /\ raised' = P.raised

\* open(cue_file, encoding=encoding) and f.readlines(): the bytes decode, or
\* UnicodeDecodeError is turned into DeflacueError.
ReadLines ==
    /\ ppc = "open"
    /\ \E decodable \in BOOLEAN :
          IF decodable THEN ppc' = "lines" /\ raised' = ""
          ELSE ppc' = "raised" /\ raised' = "DeflacueError"
    /\ UNCHANGED <<context_global, context_tracks, current_context, line,
                   nlines, track_cmds, time_vars, do_vars>>

\* One line of the file goes through the loop.
NextLine ==
    /\ ppc = "lines"
    /\ nlines < MaxLines
    /\ \E ln \in Lines :
          LET P == ParseLine(ParserState, ln)
          IN  /\ SetParser(P)
              /\ line' = ln
              /\ track_cmds' = IF CommandOf(ln) = cTRACK
                                THEN Append(track_cmds, ln) ELSE track_cmds
              /\ ppc' = IF P.raised # "" THEN "raised" ELSE "lines"
    /\ nlines' = nlines + 1
    /\ UNCHANGED <<time_vars, do_vars>>

\* The file has no more lines: the loop over the tracks runs and __init__
\* returns, or raises.
EndOfLines ==
    /\ ppc = "lines"
    /\ LET P == PostPass(ParserState)
       IN  /\ SetParser(P)
           /\ ppc' = IF P.raised # "" THEN "raised" ELSE "done"
    /\ UNCHANGED <<line, nlines, track_cmds, time_vars, do_vars>>

ParserNext == ReadLines \/ NextLine \/ EndOfLines

ParserInit == ParserIdle /\ TimeIdle /\ DoIdle

SpecParser == ParserInit /\ [][ParserNext]_vars

-----------------------------------------------------------------------------
(* Claims about the parser, under SpecParser.                               *)

\* The number a TRACK line of Lines is written with.
TrackNumberOf(ln) == IF ln = lTRACK_01 THEN 1 ELSE 2

\* C1: when CueParser has consumed a sheet to completion, there is one track
\* record per TRACK command, in the order of the TRACK commands (a record's
\* TRACK_NUM, unless a REM TRACK_NUM replaced it by a string, is the number
\* of the TRACK command at its place); every record but the last has the
\* next record's POS_START_SAMPLES as its POS_END_SAMPLES, and the last has
\* POS_END_SAMPLES None.
C1_TracksAndEndPositions ==
    ppc = "done" =>
        /\ Len(context_tracks) = Len(track_cmds)
        /\ \A i \in 1..Len(context_tracks) :
              /\ kTRACK_NUM \in DOMAIN context_tracks[i]
              /\ context_tracks[i][kTRACK_NUM].t = "int" =>
                    context_tracks[i][kTRACK_NUM].n = TrackNumberOf(track_cmds[i])
              /\ kPOS_END_SAMPLES \in DOMAIN context_tracks[i]
              /\ i < Len(context_tracks) =>
                    /\ kPOS_START_SAMPLES \in DOMAIN context_tracks[i + 1]
                    /\ context_tracks[i][kPOS_END_SAMPLES] =
                           context_tracks[i + 1][kPOS_START_SAMPLES]
              /\ i = Len(context_tracks) =>
                    context_tracks[i][kPOS_END_SAMPLES] = None

\* A sheet TRACK 01, INDEX 00 00:00:75, TRACK 02, INDEX 01 03:30:00 parsed to
\* the end: the first track ends where the second starts.
C1_Witness ==
    /\ ppc = "done"
    /\ track_cmds = <<lTRACK_01, lTRACK_02>>
    /\ kPOS_START_SAMPLES \in DOMAIN context_tracks[1]
    /\ context_tracks[1][kPOS_START_SAMPLES] = Num(44100)
    /\ context_tracks[1][kPOS_END_SAMPLES] = Num(9261000)
    /\ context_tracks[2][kPOS_END_SAMPLES] = None

\* The loop has just handled a line whose command is cmd without raising.
Handled(cmd) ==
    /\ ppc = "lines" /\ ppc' = "lines"
    /\ nlines' = nlines + 1
    /\ CommandOf(line') = cmd

\* The text between the quotes of the TITLE line of Lines.
TitleText == <<"S", "/", "1">>

\* C3: a TITLE command sets the album's ALBUM if and only if no TRACK command
\* has been processed; after a TRACK it sets TITLE on the active track, and
\* nothing else, whatever the fields of the track are.
C3_TitleByScope ==
    [][Handled(cTITLE) =>
          IF track_cmds = <<>>
          THEN /\ context_global' = DictSet(context_global, kALBUM, Str(TitleText))
               /\ context_tracks' = context_tracks
          ELSE /\ context_global' = context_global
               /\ context_tracks' =
                     [context_tracks EXCEPT ![current_context] =
                          DictSet(@, kTITLE, Str(TitleText))]]_vars

\* C4: a TRACK command appends one record, a copy of the album context as it
\* stands with TRACK_NUM set to the command's number, leaves the album and
\* the earlier records as they are, and makes the new record the active
\* context, which stays the last record until the next TRACK.
C4_TrackCopiesAlbum ==
    [][/\ Handled(cTRACK) =>
            /\ context_tracks' =
                  Append(context_tracks,
                         DictSet(context_global, kTRACK_NUM,
                                 Num(TrackNumberOf(line'))))
            /\ context_global' = context_global
            /\ current_context' = Len(context_tracks')
       /\ (ppc = "lines" /\ ppc' = "lines" /\ CommandOf(line') # cTRACK) =>
            /\ current_context' = current_context
            /\ Len(context_tracks') = Len(context_tracks)]_vars

\* TRACK 01, PERFORMER "P", TRACK 02: the second track has just been
\* started and has the album's performer, not the first track's.
C4_Witness ==
    /\ ppc = "lines"
    /\ line = lTRACK_02
    /\ Len(context_tracks) = 2
    /\ current_context = 2
    /\ context_tracks[1][kPERFORMER] = Str(<<"P">>)
    /\ context_tracks[2][kPERFORMER] = Unknown
    /\ context_global[kPERFORMER] = Unknown

\* The loop over the lines has just taken one more line.
LineStep == ppc = "lines" /\ nlines' = nlines + 1

\* The commands a CueParser has a method for.
RecognizedCommands == {cREM, cPERFORMER, cTITLE, cFILE, cINDEX, cTRACK, cFLAGS}

\* The line has a command keyword and, after a space, an argument.
HasArgument(ln) == Len(SplitOnce(Strip(ln, WHITESPACE), " ")) = 2

\* C14: a line with an argument whose command keyword is not a recognized
\* command raises nothing and changes neither the album context, nor a
\* track record, nor the active context; the loop goes on to the next line.
C14_UnknownCommandSkipped ==
    [][(/\ LineStep
        /\ HasArgument(line')
        /\ CommandOf(line') \notin RecognizedCommands) =>
            /\ ppc' = "lines"
            /\ raised' = ""
            /\ context_global' = context_global
            /\ context_tracks' = context_tracks
            /\ current_context' = current_context]_vars

\* TRACK 01, INDEX 01 03:30:00, PREGAP 00:02:00 and the end of the file:
\* the sheet has been parsed to completion, with the track as INDEX left it.
C14_Witness ==
    /\ ppc = "done"
    /\ nlines = 3
    /\ line = lPREGAP
    /\ track_cmds = <<lTRACK_01>>
    /\ kINDEX \in DOMAIN context_tracks[1]
    /\ context_tracks[1][kINDEX] = Str(t033000)
    /\ context_tracks[1][kPOS_END_SAMPLES] = None

\* C17: once a TRACK command has been processed, no later line changes the
\* album context or makes it the active context again, and a line handled
\* while track k is active changes no other track record.
C17_OnlyCurrentContextChanges ==
    [][(LineStep /\ track_cmds # <<>>) =>
            /\ context_global' = context_global
            /\ current_context >= 1
            /\ current_context' >= 1
            /\ Len(context_tracks') >= Len(context_tracks)
            /\ \A k \in 1..Len(context_tracks) :
                  k # current_context => context_tracks'[k] = context_tracks[k]]_vars

\* TRACK 01, TRACK 02, PERFORMER "P": the performer is on the second track
\* and neither on the first nor on the album.
C17_Witness ==
    /\ ppc = "lines"
    /\ line = lPERFORMER
    /\ track_cmds = <<lTRACK_01, lTRACK_02>>
    /\ current_context = 2
    /\ context_tracks[2][kPERFORMER] = Str(<<"P">>)
    /\ context_tracks[1][kPERFORMER] = Unknown
    /\ context_global[kPERFORMER] = Unknown

\* The time code an INDEX line of Lines is written with, and the samples it
\* stands for.
IndexTimeOf(ln) ==
    CASE ln = lINDEX_00 -> t000075
      [] ln = lINDEX_01_0330 -> t033000
      [] ln = lINDEX_ONE_FIELD -> <<"5">>

IndexSamplesOf(ln) ==
    CASE ln = lINDEX_00 -> 44100
      [] ln = lINDEX_01_0330 -> 9261000
      [] ln = lINDEX_ONE_FIELD -> 2940

\* A context after an INDEX line: INDEX is the time code as written and
\* POS_START_SAMPLES its samples, whatever the two were before.
WithIndex(context, ln) ==
    DictSet(DictSet(context, kINDEX, Str(IndexTimeOf(ln))),
            kPOS_START_SAMPLES, Num(IndexSamplesOf(ln)))

\* C18: an INDEX command sets INDEX and POS_START_SAMPLES of the active
\* context, from the time code alone, and changes nothing else; a later
\* INDEX of the same track replaces both, so that the last one is the
\* track's start and, when the sheet is parsed to the end, the previous
\* track's POS_END_SAMPLES.
C18_LastIndexSetsStart ==
    [][/\ Handled(cINDEX) =>
            IF current_context = 0
            THEN /\ context_global' = WithIndex(context_global, line')
                 /\ context_tracks' = context_tracks
            ELSE /\ context_global' = context_global
                 /\ context_tracks' =
                       [context_tracks EXCEPT ![current_context] =
                            WithIndex(@, line')]
       /\ (ppc' = "done" /\ CommandOf(line') = cINDEX
             /\ current_context' >= 2) =>
            context_tracks'[current_context' - 1][kPOS_END_SAMPLES] =
                Num(IndexSamplesOf(line'))]_vars

\* TRACK 01, TRACK 02, INDEX 00 00:00:75, INDEX 01 03:30:00 parsed to the
\* end: the second track starts, and the first ends, at 03:30:00.
C18_Witness ==
    /\ ppc = "done"
    /\ nlines = 4
    /\ track_cmds = <<lTRACK_01, lTRACK_02>>
    /\ line = lINDEX_01_0330
    /\ kINDEX \notin DOMAIN context_tracks[1]
    /\ context_tracks[2][kINDEX] = Str(t033000)
    /\ context_tracks[2][kPOS_START_SAMPLES] = Num(9261000)
    /\ context_tracks[1][kPOS_END_SAMPLES] = Num(9261000)

\* C20 as claimed: when the loop over the lines has taken every line of the
\* sheet without raising, the loop over the tracks gives each its end and
\* the constructor returns, also when a track has no INDEX.
C20_PostPassReturns ==
    [][(ppc = "lines" /\ nlines' = nlines /\ ppc' # "lines") =>
            /\ ppc' = "done"
            /\ raised' = ""]_vars

-----------------------------------------------------------------------------
(* SpecTime: _timestr_to_samples, and the INDEX command of a sheet's first  *)
(* line, on time codes of one to MaxFields fields.                          *)

f00 == <<"0", "0">>
f01 == <<"0", "1">>
f03 == <<"0", "3">>
f30 == <<"3", "0">>
f75 == <<"7", "5">>
f0x == <<"0", "x">>
fMinus1 == <<"-", "1">>

\* The texts a field of a time code is drawn from.
FieldTexts == {<<>>, f00, f01, f03, f30, f75, f0x, fMinus1}

\* The most fields a time code of SpecTime has.
MaxFields == 4

\* The texts of the k-th field from the right.  Python's integers have no
\* width and TLC's have 32 bits: the fields that count hours or more are
\* kept small, so that every sample count of the model is below 2^31.
FieldTextsAt(k) ==
    IF k <= 3 THEN FieldTexts
    ELSE IF k = 4 THEN {<<>>, f00, f01, f0x, fMinus1}
    ELSE {<<>>, f00, f0x}

RECURSIVE JoinColon(_)
JoinColon(fs) ==
    IF Len(fs) = 1 THEN fs[1]
    ELSE fs[1] \o <<":">> \o JoinColon(Tail(fs))

TimeInit ==
    /\ DoIdle
    /\ context_global = InitialGlobal
    /\ context_tracks = <<>>
    /\ current_context = 0
    /\ raised = ""
    /\ ppc = "lines"
    /\ line = <<>>
    /\ nlines = 0
    /\ track_cmds = <<>>
    /\ \E n \in 1..MaxFields :
          \E fs \in [1..n -> FieldTexts] :
              /\ \A i \in 1..n : fs[i] \in FieldTextsAt(n + 1 - i)
              /\ time_fields = fs
              /\ timestr = JoinColon(fs)
    /\ samples = NotConverted

\* self._timestr_to_samples(timestr)
TimeConvert ==
    /\ ~samples.done
    /\ LET r == TimestrToSamples(timestr)
       IN  samples' = [done |-> TRUE, ok |-> r.ok, v |-> r.v]
    /\ UNCHANGED <<parser_vars, time_fields, timestr, do_vars>>

\* The loop of __init__ handles the line INDEX 01 <timestr>.
TimeIndex ==
    /\ ppc = "lines"
    /\ nlines = 0
    /\ LET ln == kINDEX \o SP \o f01 \o SP \o timestr
           P == ParseLine(ParserState, ln)
       IN  /\ SetParser(P)
           /\ line' = ln
           /\ ppc' = IF P.raised # "" THEN "raised" ELSE "lines"
    /\ nlines' = 1
    /\ UNCHANGED <<track_cmds, time_vars, do_vars>>

TimeNext == TimeConvert \/ TimeIndex

SpecTime == TimeInit /\ [][TimeNext]_vars

\* The number a field text stands for.
FieldNumber(f) ==
    CASE f = f00 -> 0 [] f = f01 -> 1 [] f = f03 -> 3 [] f = f30 -> 30
      [] f = f75 -> 75 [] f = fMinus1 -> 0 - 1

NonNegativeFields == {f00, f01, f03, f30, f75}

IntegerFields == NonNegativeFields \cup {fMinus1}

\* C10: for a time code mm:ss:ff of non-negative integers the conversion
\* returns (mm*60 + ss) * 44100 + ff * 588; 00:01:00 and 00:00:75 both give
\* 44100, and 03:30:00 gives 9261000.
C10_SamplesFormula ==
    samples.done =>
        /\ (Len(time_fields) = 3
              /\ \A i \in 1..3 : time_fields[i] \in NonNegativeFields) =>
                 /\ samples.ok
                 /\ samples.v =
                       (FieldNumber(time_fields[1]) * 60
                          + FieldNumber(time_fields[2])) * 44100
                       + FieldNumber(time_fields[3]) * 588
        /\ timestr = t000100 => samples.ok /\ samples.v = 44100
        /\ timestr = t000075 => samples.ok /\ samples.v = 44100
        /\ timestr = t033000 => samples.ok /\ samples.v = 9261000

\* 03:30:00 has been converted, to 9261000.
C10_Witness ==
    /\ samples.done
    /\ timestr = t033000
    /\ time_fields = <<f03, f30, f00>>
    /\ samples.v = 9261000

\* The time code of the INDEX line has the shape mm:ss:ff.
ShapeMmSsFf ==
    /\ Len(time_fields) = 3
    /\ \A i \in 1..3 : time_fields[i] \in NonNegativeFields

\* C9 as claimed: an INDEX whose time code is not three colon-separated
\* non-negative integers raises, and stores no POS_START_SAMPLES.
C9_RejectsOtherShapes ==
    (nlines = 1 /\ ~ShapeMmSsFf) =>
        /\ ppc = "raised"
        /\ kPOS_START_SAMPLES \notin DOMAIN context_global

\* Seconds as the code counts them for any number of fields: the field
\* before the frames is seconds, the one before it minutes, and so on in
\* powers of 60.
RECURSIVE SecondsOf(_)
SecondsOf(fs) ==
    IF Len(fs) <= 1 THEN 0
    ELSE FieldNumber(fs[1]) * Pow(60, Len(fs) - 2) + SecondsOf(Tail(fs))

\* C9 as amended: INDEX raises (ValueError, or IndexError for an empty time
\* code) and stores no POS_START_SAMPLES exactly when some colon-separated
\* field of the time code is not an integer literal.  The number of fields
\* and the sign are not checked: any other time code is converted, its last
\* field as frames and the fields before it as seconds, minutes, hours.
C9_RejectsNonIntegerFields ==
    nlines = 1 =>
        IF \E i \in 1..Len(time_fields) : time_fields[i] \notin IntegerFields
        THEN /\ ppc = "raised"
             /\ raised \in {"ValueError", "IndexError"}
             /\ kPOS_START_SAMPLES \notin DOMAIN context_global
        ELSE /\ ppc = "lines"
             /\ raised = ""
             /\ context_global[kINDEX] = Str(timestr)
             /\ context_global[kPOS_START_SAMPLES] =
                   Num(SecondsOf(time_fields) * 44100
                       + FieldNumber(time_fields[Len(time_fields)])
                           * 588)

\* INDEX 01 00:0x:00 has raised ValueError; INDEX is stored, the position
\* is not.
C9_Witness ==
    /\ nlines = 1
    /\ time_fields = <<f00, f0x, f00>>
    /\ ppc = "raised"
    /\ raised = "ValueError"
    /\ kPOS_START_SAMPLES \notin DOMAIN context_global

\* The time codes mm:ss:ff of the model: three non-negative fields.
ValidTimeCodes == [1..3 -> NonNegativeFields]

\* The time a code mm:ss:ff denotes, in frames.
TotalFrames(fs) ==
    (FieldNumber(fs[1]) * 60 + FieldNumber(fs[2])) * 75 + FieldNumber(fs[3])

\* C11: the conversion is strictly monotonic in time.  The converted code
\* of the state is compared with every other code mm:ss:ff: a code that
\* denotes a later time converts to more samples, an earlier one to fewer,
\* and the same code to the same number.
C11_SamplesMonotonic ==
    (samples.done /\ ShapeMmSsFf) =>
        /\ samples.ok
        /\ \A fs2 \in ValidTimeCodes :
              LET other == TimestrToSamples(JoinColon(fs2))
              IN  /\ other.ok
                  /\ TotalFrames(time_fields) < TotalFrames(fs2)
                        => samples.v < other.v
                  /\ TotalFrames(fs2) < TotalFrames(time_fields)
                        => other.v < samples.v
                  /\ fs2 = time_fields => other.v = samples.v

\* 00:00:75 has been converted; 00:01:01, one frame later, converts to
\* more samples, and 00:00:30, earlier, to fewer.
C11_Witness ==
    /\ samples.done
    /\ time_fields = <<f00, f00, f75>>
    /\ samples.v < TimestrToSamples(JoinColon(<<f00, f01, f01>>)).v
    /\ TimestrToSamples(JoinColon(<<f00, f00, f30>>)).v < samples.v

-----------------------------------------------------------------------------
(* Paths, sorting and the file system.                                      *)

\* The characters of the model's texts in the order of their code points.
AsciiOrder ==
    <<" ", "\"", "-", ".", "/", "0", "1", "2", "3", "4", "5", "6", "7", "8",
      "9", ":", "A", "B", "C", "D", "E", "F", "G", "H", "I", "J", "K", "L",
      "M", "N", "O", "P", "Q", "R", "S", "T", "U", "V", "W", "X", "Y", "Z",
      "_", "a", "b", "c", "d", "e", "f", "g", "h", "i", "j", "k", "l", "m",
      "n", "o", "p", "q", "r", "s", "t", "u", "v", "w", "x", "y", "z">>

Ord(c) == IndexOf(AsciiOrder, c)

\* a < b on two str.
RECURSIVE StrLess(_, _)
StrLess(a, b) ==
    IF b = <<>> THEN FALSE
    ELSE IF a = <<>> THEN TRUE
    ELSE IF Head(a) = Head(b) THEN StrLess(Tail(a), Tail(b))
    ELSE Ord(Head(a)) < Ord(Head(b))

\* A sort from the greatest to the least.
RECURSIVE SortedDescending(_)
SortedDescending(S) ==
    IF S = {} THEN <<>>
    ELSE LET m == CHOOSE x \in S : \A y \in S \ {x} : StrLess(y, x)
         IN  <<m>> \o SortedDescending(S \ {m})

\* sorted(S) of a collection of distinct str.
RECURSIVE Sorted(_)
Sorted(S) ==
    IF S = {} THEN <<>>
    ELSE LET m == CHOOSE x \in S : \A y \in S \ {x} : StrLess(x, y)
         IN  <<m>> \o Sorted(S \ {m})

EndsWith(s, suffix) ==
    /\ Len(s) >= Len(suffix)
    /\ SubSeq(s, Len(s) - Len(suffix) + 1, Len(s)) = suffix

\* os.path.join(a, b)
PathJoin(a, b) ==
    IF StartsWith(b, "/") THEN b
    ELSE IF a = <<>> \/ a[Len(a)] = "/" THEN a \o b
    ELSE a \o <<"/">> \o b

\* os.path.basename(p)
Basename(p) == SubSeq(p, LastIndexOf(p, "/") + 1, Len(p))

\* os.path.splitext(f)[1] of a file name: from the last dot on, unless only
\* dots come before it.
SplitExt(f) ==
    LET dot == LastIndexOf(f, ".")
    IN  IF dot = 0 \/ \A i \in 1..(dot - 1) : f[i] = "." THEN <<>>
        ELSE SubSeq(f, dot, Len(f))

tDEFLACUE == <<"d", "e", "f", "l", "a", "c", "u", "e">>
extCUE == <<".", "c", "u", "e">>
extFLAC == <<".", "f", "l", "a", "c">>

\* self.source, two directories under it and the destination of a run
\* that is given one.
source == <<"/", "m">>
dirA == PathJoin(source, <<"a">>)
dirDeflacue == PathJoin(source, tDEFLACUE)
destination == <<"/", "o">>
Dirs == {source, dirA, dirDeflacue}

nACUE == <<"a">> \o extCUE
nBCUE == <<"b">> \o extCUE
CueNames == {nACUE, nBCUE}

\* The most cue files the file system of a batch holds.
MaxCues == 2

\* os.path.exists(p): a directory or a file of the tree, or a directory
\* that os.makedirs made (with the directories above it).
PathExists(fs, mk, p) ==
    \/ p \in DOMAIN fs
    \/ \E d \in DOMAIN fs : \E f \in fs[d] : PathJoin(d, f) = p
    \/ \E m \in mk :
          \/ m = p
          \/ Len(m) > Len(p) /\ SubSeq(m, 1, Len(p)) = p /\ m[Len(p) + 1] = "/"

\* get_dir_files: os.walk visits every directory under the source; without
\* recursion only the files of the source itself are listed.
GetDirFiles(fs, rec) ==
    IF rec THEN [d \in DOMAIN fs |-> fs[d]]
    ELSE [d \in {source} |-> fs[source]]

\* A filter that keeps every directory.
FilterEveryDirectory(files_dict) ==
    [d \in DOMAIN files_dict |->
        Sorted({f \in files_dict[d] : SplitExt(f) = extCUE})]

\* filter_target_extensions: the directories whose path ends with
\* 'deflacue' are dropped; of the others the .cue files, sorted.
FilterTargetExtensions(files_dict) ==
    [d \in {x \in DOMAIN files_dict : ~EndsWith(x, tDEFLACUE)} |->
        Sorted({f \in files_dict[d] : SplitExt(f) = extCUE})]

\* _create_directory: the test that guards os.makedirs.
MakedirsCalled(exists, dry) == ~exists /\ ~dry

\* _create_directory(path): os_ok tells whether os.makedirs succeeds.
CreateDirectory(fs, mk, dry, path, os_ok) ==
    IF ~MakedirsCalled(PathExists(fs, mk, path), dry)
    THEN [made |-> mk, raised |-> ""]
    ELSE IF os_ok THEN [made |-> mk \cup {path}, raised |-> ""]
    ELSE [made |-> mk, raised |-> "DeflacueError"]

-----------------------------------------------------------------------------
(* Deflacue.sox_extract_audio and Deflacue.process_cue.                     *)

\* '%s' % v
ValueText(v) ==
    CASE v.t = "str" -> v.s
      [] v.t = "int" -> IntStr(v.n)
      [] OTHER -> <<"N", "o", "n", "e">>

\* A zfill that pads nothing.
ZFillNothing(s, width) == s

\* s.zfill(width)
RECURSIVE ZFill(_, _)
ZFill(s, width) ==
    IF Len(s) >= width THEN s
    ELSE IF s # <<>> /\ Head(s) \in {"+", "-"}
         THEN ZFill(<<Head(s), "0">> \o Tail(s), width)
    ELSE ZFill(<<"0">> \o s, width)

\* s.replace(c, '')
Remove(s, c) == SelectSeq(s, LAMBDA x : x # c)

vTRACKNUMBER == <<"T", "R", "A", "C", "K", "N", "U", "M", "B", "E", "R">>
vARTIST == <<"A", "R", "T", "I", "S", "T">>

\* COMMENTS_CUE_TO_VORBIS, in the order the dictionary is written.
COMMENTS_CUE_TO_VORBIS ==
    <<<<kTRACK_NUM, vTRACKNUMBER>>, <<kTITLE, kTITLE>>, <<kPERFORMER, vARTIST>>,
      <<kALBUM, kALBUM>>, <<kGENRE, kGENRE>>, <<kDATE, kDATE>>>>

\* The --add-comment options of a track: one per mapped key the track has
\* with a value that is not None.
AddComment(metadata) ==
    LET kept == SelectSeq(COMMENTS_CUE_TO_VORBIS,
                          LAMBDA kv : /\ kv[1] \in DOMAIN metadata
                                      /\ metadata[kv[1]] # None)
    IN  [i \in 1..Len(kept) |-> <<kept[i][2], ValueText(metadata[kept[i][1]])>>]

\* A test that does not look at the dry run flag.
SoxRunsInDryRun(dry) == TRUE

\* sox_extract_audio: the test that guards the call of the tool.
SoxRuns(dry) == ~dry

\* sox_extract_audio: the commands it runs, none or one.  A command is kept
\* as the values its text is formatted from, with the status the tool ends
\* with: _process_command returns it and sox_extract_audio drops it.
SoxExtractAudio(dry, src, start, end_pos, target_file, metadata, returncode) ==
    LET length == IF end_pos = None THEN None ELSE Num(end_pos.n - start.n)
        command == [source |-> src, start |-> start, length |-> length,
                    target |-> target_file, comment |-> AddComment(metadata),
                    returncode |-> returncode]
    IN  IF SoxRuns(dry) THEN <<command>> ELSE <<>>

tDASH == <<" ", "-", " ">>

\* The loop over the tracks in process_cue, from track i on.  A track
\* without TITLE or POS_START_SAMPLES raises KeyError; the tracks before it
\* have been extracted by then.  failing is the set of the tracks, by
\* place, for which the tool ends with a status other than 0.
RECURSIVE ExtractTracks(_, _, _, _, _, _)
ExtractTracks(dry, tracks, i, bundle_path, done, failing) ==
    IF i > Len(tracks) THEN [sox |-> done, raised |-> ""]
    ELSE LET track == tracks[i]
             tracks_count == Len(tracks)
             track_num == ZFill(ValueText(track[kTRACK_NUM]),
                                Len(IntStr(tracks_count)))
         IN  IF kTITLE \notin DOMAIN track
                  \/ kPOS_START_SAMPLES \notin DOMAIN track
             THEN [sox |-> done, raised |-> "KeyError"]
             ELSE LET filename == track_num \o tDASH
                                    \o Remove(ValueText(track[kTITLE]), "/")
                                    \o extFLAC
                  IN  ExtractTracks(dry, tracks, i + 1, bundle_path,
                          done \o SoxExtractAudio(dry, ValueText(track[kFILE]),
                                      track[kPOS_START_SAMPLES],
                                      track[kPOS_END_SAMPLES],
                                      PathJoin(bundle_path, filename), track,
                                      IF i \in failing THEN 1 ELSE 0),
                          failing)

\* A check that finds every source file.
SourceAlwaysFound(fs, mk, wd, file_value) == TRUE

\* process_cue: os.path.exists(cd_info['FILE']), a relative name being
\* looked up in the working directory.
SourceFound(fs, mk, wd, file_value) ==
    PathExists(fs, mk, PathJoin(wd, file_value.s))

\* process_cue: the title of the bundle, with the date before it if any.
BundleTitle(cd_info) ==
    IF cd_info[kDATE] # None
    THEN ValueText(cd_info[kDATE]) \o tDASH \o ValueText(cd_info[kALBUM])
    ELSE ValueText(cd_info[kALBUM])

\* process_cue: os.path.join(target_path, cd_info['PERFORMER'], title)
BundlePath(tpath, cd_info) ==
    PathJoin(PathJoin(tpath, ValueText(cd_info[kPERFORMER])),
             BundleTitle(cd_info))

\* process_cue once the bundle directory is there, or could not be made.
ProcessTracks(dry, tracks, bundle_path, created, failing) ==
    IF created.raised # ""
    THEN [made |-> created.made, sox |-> <<>>, raised |-> created.raised,
          logged |-> <<>>]
    ELSE [made |-> created.made, logged |-> <<>>]
             @@ ExtractTracks(dry, tracks, 1, bundle_path, <<>>, failing)

\* process_cue from the parser on: parser is what CueParser(cue_file) gave.
\* The result is the directories made by the end, the commands run, the
\* messages logged with logging.error, and the exception that left
\* process_cue ("" for none).
ProcessParsed(fs, mk, dry, wd, tpath, parser, os_ok, failing) ==
    IF parser.raised # ""
    THEN [made |-> mk, sox |-> <<>>, raised |-> parser.raised,
          logged |-> <<>>]
    ELSE IF parser.g[kFILE] = None
    THEN [made |-> mk, sox |-> <<>>, raised |-> "TypeError", logged |-> <<>>]
    ELSE IF ~SourceFound(fs, mk, wd, parser.g[kFILE])
    THEN [made |-> mk, sox |-> <<>>, raised |-> "",
          logged |-> <<"Source file is not found. Cue Sheet is skipped.">>]
    ELSE ProcessTracks(dry, parser.tracks, BundlePath(tpath, parser.g),
                       CreateDirectory(fs, mk, dry,
                                       BundlePath(tpath, parser.g), os_ok),
                       failing)

\* process_cue(cue_file, target_path) on a file whose content is file.
ProcessCue(fs, mk, dry, wd, tpath, file, os_ok, failing) ==
    ProcessParsed(fs, mk, dry, wd, tpath, CueParser(file), os_ok, failing)

-----------------------------------------------------------------------------
(* Spec: one run of main(): Deflacue(source, destination), the probe of    *)
(* the tool, set_dry_run() or not, and do(recursive).                       *)

\* The contents open() finds in a cue file.
sExample == [decodable |-> TRUE,
             lines |-> <<lPERFORMER, lTITLE_A, lFILE, lTRACK_01, lTITLE_S1,
                         lINDEX_01, lTRACK_02, lTITLE_S2, lINDEX_01_0330>>]
sDated == [decodable |-> TRUE,
           lines |-> <<lREM_DATE, lFILE, lTRACK_01, lTITLE_S2, lINDEX_01>>]
sMissingAudio == [decodable |-> TRUE,
                  lines |-> <<lFILE_X, lTRACK_01, lTITLE_S2, lINDEX_01>>]
sNoFile == [decodable |-> TRUE, lines |-> <<lTRACK_01, lTITLE_S2, lINDEX_01>>]
sNoArgs == [decodable |-> TRUE, lines |-> <<lFILE, lNO_ARGS>>]
sBadTime == [decodable |-> TRUE, lines |-> <<lFILE, lTRACK_01, lINDEX_NOT_INT>>]
sNoTitle == [decodable |-> TRUE, lines |-> <<lFILE, lTRACK_01, lINDEX_01>>]
sUndecodable == [decodable |-> FALSE, lines |-> <<>>]

\* A sheet of three tracks whose second track has a FILE of its own.
sMultiFile == [decodable |-> TRUE,
               lines |-> <<lFILE, lTRACK_01, lTITLE_S2, lINDEX_01,
                           lTRACK_02, lFILE_X, lTITLE_S2, lINDEX_01,
                           <<" ">> \o tTRACK \o SP \o <<"3">> \o SP \o tAUDIO,
                           lTITLE_S2, lINDEX_01_0330>>]

\* The number of tracks of the long sheet: a track count of two digits.
ManyTracks == 10

\* TRACK nn AUDIO and the TITLE and INDEX of the track, for the tracks from
\* number n to number last.
RECURSIVE TrackLines(_, _)
TrackLines(n, last) ==
    IF n > last THEN <<>>
    ELSE <<tTRACK \o SP \o ZFill(NatStr(n), 2) \o SP \o tAUDIO,
           lTITLE_S2, lINDEX_01>> \o TrackLines(n + 1, last)

sManyTracks == [decodable |-> TRUE,
                lines |-> <<lFILE>> \o TrackLines(1, ManyTracks)]

Sheets == {sExample, sDated, sMissingAudio, sNoFile, sNoArgs, sBadTime,
           sNoTitle, sUndecodable, sMultiFile, sManyTracks}

\* The tracks of a sheet, by place, for which the tool may end with a
\* status other than 0: none, or the first.
FailingTracks == {{}, {1}}

\* The working directory do() starts in and returns to: __init__ changes
\* to the source when a destination is given.
InitialCwd(dest) == IF dest # <<>> THEN source ELSE <<"/">>

\* main() after Deflacue(**kwargs): the source exists, with any cue files
\* in its directories.
Init ==
    /\ ParserIdle
    /\ TimeIdle
    /\ \E layout \in [Dirs -> SUBSET CueNames] :
          \E audio \in BOOLEAN :
              /\ Cardinality({dn \in Dirs \X CueNames : dn[2] \in layout[dn[1]]})
                    <= MaxCues
              /\ tree = [d \in Dirs |->
                            layout[d] \cup (IF audio THEN {nDFLAC} ELSE {})]
    /\ dry_run = FALSE
    /\ recursive = FALSE
    /\ target \in {<<>>, destination}
    /\ dpc = "main"
    /\ paths = <<>>
    /\ cues = <<>>
    /\ target_path = <<>>
    /\ cwd = InitialCwd(target)
    /\ made = {}
    /\ sox = <<>>
    /\ parsed = <<>>
    /\ do_raised = ""
    /\ probe = "none"
    /\ errors = <<>>

\* main(): what its except DeflacueError clause logs for an exception.
MainLogs(exc) == IF exc = "DeflacueError" THEN <<exc>> ELSE <<>>

\* A main() that goes on to do() whatever the probe finds.
SoxCheckIgnored ==
    /\ dpc = "main"
    /\ probe' \in {"ok", "failed"}
    /\ dpc' = "start"
    /\ UNCHANGED <<parser_vars, time_vars, tree, dry_run, recursive, target,
                   paths, cues, target_path, cwd, made, sox, parsed,
                   do_raised, errors>>

\* main(): sox_check_is_available() runs sox -h, also in a dry run; when
\* the status is not 0, DeflacueError is raised, caught and logged, and
\* main() returns without calling do().
SoxCheckIsAvailable ==
    /\ dpc = "main"
    /\ \E available \in BOOLEAN :
          IF available
          THEN /\ probe' = "ok"
               /\ dpc' = "start"
               /\ errors' = errors
          ELSE /\ probe' = "failed"
               /\ dpc' = "aborted"
               /\ errors' = errors \o MainLogs("DeflacueError")
    /\ UNCHANGED <<parser_vars, time_vars, tree, dry_run, recursive, target,
                   paths, cues, target_path, cwd, made, sox, parsed,
                   do_raised>>

\* set_dry_run(), before do() is called.
SetDryRun ==
    /\ dpc = "start"
    /\ ~dry_run
    /\ dry_run' = TRUE
    /\ UNCHANGED <<parser_vars, time_vars, tree, recursive, target, dpc, paths,
                   cues, target_path, cwd, made, sox, parsed, do_raised,
                   probe, errors>>

\* do(recursive) up to its loop: the files are enumerated and filtered.
DoStart ==
    /\ dpc = "start"
    /\ \E rec \in BOOLEAN :
          /\ recursive' = rec
          /\ paths' = Sorted(DOMAIN FilterTargetExtensions(GetDirFiles(tree, rec)))
    /\ dpc' = "dir"
    /\ UNCHANGED <<parser_vars, time_vars, tree, dry_run, target, cues,
                   target_path, cwd, made, sox, parsed, do_raised, probe,
                   errors>>

\* The head of the loop over the directories: os.chdir(path), the target
\* path and _create_directory(target_path).
EnterDir ==
    /\ dpc = "dir"
    /\ paths # <<>>
    /\ \E os_ok \in BOOLEAN :
          LET path == Head(paths)
              tpath == IF target = <<>> THEN PathJoin(path, tDEFLACUE)
                       ELSE PathJoin(target, Basename(path))
              created == CreateDirectory(tree, made, dry_run, tpath, os_ok)
          IN  /\ cwd' = path
              /\ target_path' = tpath
              /\ made' = created.made
              /\ errors' = errors \o MainLogs(created.raised)
              /\ IF created.raised # ""
                 THEN /\ dpc' = "raised"
                      /\ do_raised' = created.raised
                      /\ cues' = cues
                 ELSE /\ dpc' = "cue"
                      /\ do_raised' = do_raised
                      /\ cues' = FilterTargetExtensions(
                                     GetDirFiles(tree, recursive))[path]
    /\ UNCHANGED <<parser_vars, time_vars, tree, dry_run, recursive, target,
                   paths, sox, parsed, probe>>

\* What a turn of the loop over the cue files leaves: r is the result of
\* process_cue on cue_file, found with the content file.
AfterCue(cue_file, file, r) ==
    /\ parsed' = Append(parsed, [cue |-> cue_file, file |-> file])
    /\ made' = r.made
    /\ sox' = sox \o r.sox
    /\ errors' = errors \o r.logged \o MainLogs(r.raised)
    /\ dpc' = IF r.raised # "" THEN "raised" ELSE "cue"
    /\ do_raised' = r.raised
    /\ cues' = IF r.raised # "" THEN cues ELSE Tail(cues)

\* process_cue on cue_file once CueParser has given parser: whether
\* os.makedirs succeeds and which extractions fail is the environment's.
ProcessNextParsed(cue_file, file, parser) ==
    \E os_ok \in BOOLEAN :
        \E failing \in FailingTracks :
            AfterCue(cue_file, file,
                     ProcessParsed(tree, made, dry_run, cwd, target_path,
                                   parser, os_ok, failing))

\* One turn of the loop over the cue files of a directory: process_cue on
\* the next file, whose content is whatever open() finds.
ProcessNextCue ==
    /\ dpc = "cue"
    /\ cues # <<>>
    /\ \E file \in Sheets :
          ProcessNextParsed(PathJoin(cwd, Head(cues)), file, CueParser(file))
    /\ UNCHANGED <<parser_vars, time_vars, tree, dry_run, recursive, target,
                   paths, target_path, cwd, probe>>

\* The cue files of the directory are done: on to the next directory.
LeaveDir ==
    /\ dpc = "cue"
    /\ cues = <<>>
    /\ paths' = Tail(paths)
    /\ dpc' = "dir"
    /\ UNCHANGED <<parser_vars, time_vars, tree, dry_run, recursive, target,
                   cues, target_path, cwd, made, sox, parsed, do_raised,
                   probe, errors>>

\* The directories are done: os.chdir(initial_cwd), and do() returns.
DoEnd ==
    /\ dpc = "dir"
    /\ paths = <<>>
    /\ cwd' = InitialCwd(target)
    /\ dpc' = "done"
    /\ UNCHANGED <<parser_vars, time_vars, tree, dry_run, recursive, target,
                   paths, cues, target_path, made, sox, parsed, do_raised,
                   probe, errors>>

Next ==
    \/ SoxCheckIsAvailable
    \/ SetDryRun
    \/ DoStart
    \/ EnterDir
    \/ ProcessNextCue
    \/ LeaveDir
    \/ DoEnd

Spec == Init /\ [][Next]_vars

-----------------------------------------------------------------------------
(* Claims about the batch, under Spec.                                      *)

\* The cue files CueParser has been given so far.
ParsedCues == {parsed[i].cue : i \in 1..Len(parsed)}

\* The content of the cue file handed to CueParser last.
LastFile == parsed[Len(parsed)].file

\* A turn of the loop over the cue files has just started process_cue.
CueStep == Len(parsed') = Len(parsed) + 1

\* The sheets of Sheets that CueParser cannot parse: undecodable bytes, a
\* command line without argument, a time code that is not a number.
UnparsableSheets == {sUndecodable, sNoArgs, sBadTime}

\* C2 as claimed: a sheet whose parsing fails is abandoned alone; the error
\* does not leave the per-sheet step, so do() has not raised after it.
C2_ParseFailureStaysInSheet ==
    (parsed # <<>> /\ LastFile \in UnparsableSheets) =>
        /\ dpc # "raised"
        /\ do_raised = ""

\* The album FILE of the sheets of Sheets that are parsed to the end and
\* have one.
AlbumFileOf(file) == IF file = sMissingAudio THEN nXFLAC ELSE nDFLAC

SheetsWithFile == {sExample, sDated, sMissingAudio, sNoTitle, sMultiFile,
                   sManyTracks}

\* C5: when the album's FILE names a path that does not exist, process_cue
\* makes no directory and runs no extraction for the sheet, and do() goes
\* on with the next cue file of the directory.
C5_MissingSourceSkipsSheet ==
    [][(/\ CueStep
        /\ parsed'[Len(parsed')].file \in SheetsWithFile
        /\ AlbumFileOf(parsed'[Len(parsed')].file) \notin tree[cwd]) =>
            /\ made' = made
            /\ sox' = sox
            /\ do_raised' = ""
            /\ dpc' = "cue"
            /\ cues' = Tail(cues)]_vars

\* Without dry run: a first sheet whose FILE is missing was skipped, and the
\* next sheet of the batch has been extracted.
C5_Witness ==
    /\ ~dry_run
    /\ Len(parsed) = 2
    /\ parsed[1].file = sMissingAudio
    /\ parsed[2].file = sExample
    /\ Len(sox) = 2
    /\ \A m \in made : ~EndsWith(m, <<"U", "n", "k", "n", "o", "w", "n">>)

\* C6 as claimed: a sheet without FILE command is treated as a sheet whose
\* source audio is missing: it is skipped and do() goes on.
C6_SheetWithoutFileIsSkipped ==
    (parsed # <<>> /\ LastFile = sNoFile) =>
        /\ dpc # "raised"
        /\ do_raised = ""

\* The cue files in the directories do() looks at: the source, and with
\* recursion every directory under it.
AllCues(rec) ==
    {PathJoin(dn[1], dn[2]) :
        dn \in {x \in Dirs \X CueNames :
                   /\ x[2] \in tree[x[1]]
                   /\ rec \/ x[1] = source}}

\* Those of them whose directory is not the one named deflacue.
CuesOutsideDeflacue(rec) ==
    {PathJoin(dn[1], dn[2]) :
        dn \in {x \in Dirs \X CueNames :
                   /\ x[2] \in tree[x[1]]
                   /\ rec \/ x[1] = source
                   /\ x[1] # dirDeflacue}}

\* C7: after set_dry_run() a run of do() makes no directory and runs no
\* extraction command, and still parses every cue file it discovers: when
\* do() returns, each of them has been handed to CueParser.
C7_DryRunChangesNothing ==
    dry_run =>
        /\ made = {}
        /\ sox = <<>>
        /\ dpc = "done" => ParsedCues = CuesOutsideDeflacue(recursive)

\* A dry run that has returned after parsing two sheets whose source audio
\* is there: a run without the flag extracts their tracks.
C7_Witness ==
    /\ dry_run
    /\ dpc = "done"
    /\ Len(parsed) = 2
    /\ parsed[1].file = sExample
    /\ parsed[2].file = sDated
    /\ nDFLAC \in tree[source]

ExtractableSheets == {sExample, sDated, sMultiFile, sManyTracks}

TrackCountOf(file) ==
    CASE file = sExample -> 2
      [] file = sDated -> 1
      [] file = sMultiFile -> 3
      [] file = sManyTracks -> ManyTracks

\* process_cue has just gone through a sheet whose album FILE is there,
\* outside a dry run, and has returned.
SheetExtracted ==
    /\ CueStep
    /\ ~dry_run
    /\ parsed'[Len(parsed')].file \in ExtractableSheets
    /\ nDFLAC \in tree[cwd]
    /\ do_raised' = ""

\* The k-th command the step has run.
NewCommand(k) == sox'[Len(sox) + k]

\* The cue files outside the directory deflacue, in the order of the
\* directories' paths and, within a directory, of the file names.
CueOrder ==
    <<PathJoin(source, nACUE), PathJoin(source, nBCUE),
      PathJoin(dirA, nACUE), PathJoin(dirA, nBCUE)>>

PlaceOf(cue) == CHOOSE i \in 1..Len(CueOrder) : CueOrder[i] = cue

\* C12: cue files are processed in sorted order of the directories and,
\* within a directory, of the file names; each step of process_cue adds its
\* commands after all earlier ones, and for a sheet that is extracted they
\* are one per track, in the order of the tracks.
C12_SortedOneAfterAnother ==
    [][CueStep =>
          /\ parsed # <<>> =>
                PlaceOf(parsed[Len(parsed)].cue)
                   < PlaceOf(parsed'[Len(parsed')].cue)
          /\ Len(sox') >= Len(sox)
          /\ SubSeq(sox', 1, Len(sox)) = sox
          /\ SheetExtracted =>
                /\ Len(sox') = Len(sox) + TrackCountOf(parsed'[Len(parsed')].file)
                /\ \A k \in 1..TrackCountOf(parsed'[Len(parsed')].file) :
                      NewCommand(k).comment[1] = <<vTRACKNUMBER, NatStr(k)>>]_vars

\* A recursive run has returned: b.cue of the source was extracted before
\* a.cue of the directory a, two commands and then one.
C12_Witness ==
    /\ dpc = "done"
    /\ Len(parsed) = 2
    /\ parsed[1] = [cue |-> PathJoin(source, nBCUE), file |-> sExample]
    /\ parsed[2] = [cue |-> PathJoin(dirA, nACUE), file |-> sDated]
    /\ Len(sox) = 3
    /\ sox[3].comment[1] = <<vTRACKNUMBER, <<"1">>>>

\* The performer and the title of the bundle of a sheet of ExtractableSheets,
\* and the title of its k-th track without the character /.
PerformerOf(file) ==
    IF file = sExample THEN <<"P">> ELSE <<"U", "n", "k", "n", "o", "w", "n">>

BundleTitleOf(file) ==
    CASE file = sExample -> <<"A", "l">>
      [] file = sDated ->
            <<"1", "9", "9", "9", " ", "-", " ", "U", "n", "k", "n", "o", "w", "n">>
      [] OTHER -> <<"U", "n", "k", "n", "o", "w", "n">>

FlatTitleOf(file, k) ==
    IF file = sExample /\ k = 1 THEN <<"S", "1">> ELSE <<"S", "2">>

\* The number k written with as many digits as the track count n has.
PaddedNumber(k, n) ==
    IF n >= 10 /\ k < 10 THEN <<"0">> \o NatStr(k) ELSE NatStr(k)

\* C13: the output path of the k-th track of a sheet is
\* <target>/<PERFORMER>/<DATE - ALBUM or ALBUM>/<NN> - <Title>.flac, NN
\* padded with zeros to the digits of the track count and Title without
\* its / characters.
C13_OutputPath ==
    [][SheetExtracted =>
          LET file == parsed'[Len(parsed')].file
          IN  \A k \in 1..TrackCountOf(file) :
                 NewCommand(k).target =
                    target_path \o <<"/">> \o PerformerOf(file) \o <<"/">>
                       \o BundleTitleOf(file) \o <<"/">>
                       \o PaddedNumber(k, TrackCountOf(file))
                       \o <<" ", "-", " ">> \o FlatTitleOf(file, k)
                       \o <<".", "f", "l", "a", "c">>]_vars

\* The sheets of two and of ten tracks, extracted into /o/m: 1 - S1.flac
\* from the title S/1, then 01 - S2.flac to 10 - S2.flac.
C13_Witness ==
    /\ Len(parsed) = 2
    /\ parsed[1].file = sExample
    /\ parsed[2].file = sManyTracks
    /\ target # <<>>
    /\ Len(sox) = 2 + ManyTracks
    /\ Basename(sox[1].target) = <<"1", " ", "-", " ", "S", "1", ".", "f", "l", "a", "c">>
    /\ Basename(sox[3].target) = <<"0", "1", " ", "-", " ", "S", "2", ".", "f", "l", "a", "c">>

\* C15: main() probes the tool before any cue file is processed, and when
\* the probe fails it stops there: no cue file is parsed, no directory
\* made, no extraction run, and do() is never entered.
C15_ProbeBeforeProcessing ==
    /\ (parsed # <<>> \/ made # {} \/ sox # <<>>
          \/ dpc \in {"start", "dir", "cue", "done", "raised"}) => probe = "ok"
    /\ probe = "failed" =>
          /\ dpc = "aborted"
          /\ parsed = <<>>
          /\ made = {}
          /\ sox = <<>>
          /\ paths = <<>>

\* The probe has failed with two cue files in the source: main() has logged
\* the error and is over.
C15_Witness ==
    /\ probe = "failed"
    /\ dpc = "aborted"
    /\ {nACUE, nBCUE} \subseteq tree[source]
    /\ errors = <<"DeflacueError">>

\* C16 as claimed: when the tool ends with a status other than 0 for a
\* track, the failure is logged, and it is not fatal: the later tracks of
\* the sheet are requested and do() goes on.
C16_FailedExtractionLoggedNotFatal ==
    [][(/\ CueStep
        /\ \E k \in 1..(Len(sox') - Len(sox)) : NewCommand(k).returncode # 0) =>
            /\ Len(errors') > Len(errors)
            /\ Len(sox') = Len(sox) + TrackCountOf(parsed'[Len(parsed')].file)
            /\ dpc' = "cue"]_vars

\* The source file of each track of a sheet of ExtractableSheets.
TrackFileOf(file, k) == IF file = sMultiFile /\ k = 2 THEN nXFLAC ELSE nDFLAC

\* C19: FILE sets FILE of the current context only.  In the sheet whose
\* second track has FILE x.flac, the first and the third track have the
\* album's d.flac; each command takes its track's FILE as source; and the
\* sheet is extracted exactly when the album's d.flac is there, x.flac
\* being nowhere.
C19_FileOfCurrentContext ==
    [][(CueStep /\ ~dry_run /\ do_raised' = ""
          /\ parsed'[Len(parsed')].file \in ExtractableSheets) =>
          LET file == parsed'[Len(parsed')].file
          IN  IF nDFLAC \in tree[cwd]
              THEN /\ Len(sox') = Len(sox) + TrackCountOf(file)
                   /\ \A k \in 1..TrackCountOf(file) :
                         NewCommand(k).source = TrackFileOf(file, k)
              ELSE sox' = sox]_vars

\* The sheet of three tracks has been extracted: from d.flac, x.flac and
\* d.flac.
C19_Witness ==
    /\ Len(parsed) = 1
    /\ parsed[1].file = sMultiFile
    /\ nXFLAC \notin tree[cwd]
    /\ Len(sox) = 3
    /\ sox[1].source = nDFLAC
    /\ sox[2].source = nXFLAC
    /\ sox[3].source = nDFLAC
=============================================================================
